---- MODULE Spec2Model ----
(***************************************************************************)
(* Model of the live voice session hook useLiveVoiceSession                *)
(* (src/unnamed/part_011, lines 1-1256) and of the capture worklet         *)
(* AudioStreamProcessor (src/unnamed/part_017).                            *)
(*                                                                         *)
(* The hook runs on the browser's main thread: every handler runs to its   *)
(* next await; a continuation of an await on an already finished           *)
(* computation is a microtask (FIFO, run before the next event), a         *)
(* continuation of a real wait (AudioContext.resume/close, addModule,      *)
(* getUserMedia, WebRTC calls) runs when the browser resolves it.  Socket, *)
(* port and peer-connection events are tasks of the event loop and run     *)
(* only when no microtask is pending.  start() and stop() are called by    *)
(* the embedding component from its event handlers (RealtimeConfigurator,  *)
(* handleStartSession and handleStopSession), one call in a task.          *)
(***************************************************************************)
EXTENDS Integers, Sequences, FiniteSets, Bags, TLC

\* ---------------------------------------------------------------- bounds
MaxStarts == 2      \* calls of start(); start number s owns socket s, audio context s, microphone s, worklet s
MaxStops == 2       \* calls of stop() by the embedding component
MaxTd == 2          \* cleanupAudioGraph runs that may be in flight at once
MaxBytes == 4       \* cap of the bytes of binary frames received
MaxSent == 2        \* cap of the bytes of audio frames sent
MaxInFlight == 1    \* audio frames posted by a worklet and not yet handled
MaxPc == 1          \* peer connections created
MaxCands == 2       \* remote ICE candidates delivered
MaxResponses == 1    \* session.event response.done messages counted
MaxLocalCands == 1  \* local ICE candidates a peer connection gathers
MaxNow == 3         \* cap of the audio context's clock, in samples
MaxRenegotiated == 2 \* peer connections created where a negotiation is repeated

PCM_FRAME_SIZE == 2

StartIds == 1..MaxStarts
PcIds == 1..(IF MaxPc >= MaxRenegotiated THEN MaxPc ELSE MaxRenegotiated)

\* byte length of a frame the capture worklet posts (one sample)
SentFrameBytes == PCM_FRAME_SIZE
\* byte lengths of the binary frames the server sends (one or two samples)
RecvFrameLens == {PCM_FRAME_SIZE, 2 * PCM_FRAME_SIZE}

VARIABLES
  \* --- refs and React state of the hook (part_011:153-181)
  status,            \* statusRef / status
  error,             \* error: "null" or the kind of message shown
  closing,           \* closingRef
  streamingEnabled,  \* streamingEnabledRef
  wsRef,             \* wsRef: 0 (null) or a socket
  audioContextRef,   \* audioContextRef: 0 or an audio context
  mediaStreamRef,    \* mediaStreamRef: 0 or a microphone stream
  workletNodeRef,    \* workletNodeRef, sourceNodeRef, inhaleGainNodeRef (set and cleared together): 0 or a worklet
  playbackNodes,     \* playbackNodesRef: the playback nodes scheduled and not yet ended
  playbackCursor,    \* playbackCursorRef, in samples
  metrics,           \* metricsRef / metrics
  avatarState,       \* avatarStateRef / avatarState
  avatarPeerConnectionRef,  \* 0 or a peer connection
  avatarRemoteStreamRef,    \* 0 or the remote media stream of a peer connection
  avatarCandidateQueue,     \* avatarCandidateQueueRef: the pending remote ICE candidates
  \* --- the browser objects the hook created
  rs,                \* readyState of each socket
  wire,              \* what each socket has sent
  ctxState,          \* state of each audio context
  micState,          \* state of each microphone stream
  wkEnabled,         \* AudioStreamProcessor.streamingEnabled of each worklet
  wkCtl,             \* setStreamingEnabled messages posted to each worklet, not yet received
  wkFrames,          \* audioData messages posted by each worklet, not yet received
  now,               \* audioContext.currentTime, in samples
  pcs,               \* the peer connections: state, descriptions set, candidates applied
  \* --- control state of the asynchronous functions
  spc,               \* where each start() call is
  closeWait,         \* the cleanupAudioGraph runs that await audioContext.close(): a bag
  microQ,            \* the microtask queue: the continuations that are ready to run
  mustClose,         \* socket whose close event follows its error event in the same task, or 0
  \* --- history
  nStart,            \* number of start() calls so far
  nStop,             \* number of stop() calls so far
  frames,            \* bytes of audio frames sent / binary frames received since resetMetrics
  stopInStart,       \* a stop() was called while a start() was connecting, and no start() since
  stopInAvatar,      \* a stop() was called while the avatar was connecting, and no start() since
  nPc,               \* number of peer connections created so far
  nCand,             \* number of remote ICE candidates delivered so far
  owed,              \* the remote candidates queued since the last peer connection was created or the session torn down
  fatalText,         \* the text handleFatalError was last called with, as it shows it
  logged,            \* the levels of the warn and error entries the handler that ran last appended to logs
  released,          \* what the cleanupAudioGraph that ran last disabled and released, in the order of its statements
  lastOp             \* the handler that ran last

vars == <<status, error, closing, streamingEnabled, wsRef, audioContextRef,
          mediaStreamRef, workletNodeRef, playbackNodes, playbackCursor, metrics,
          avatarState, avatarPeerConnectionRef, avatarRemoteStreamRef, avatarCandidateQueue,
          rs, wire, ctxState, micState, wkEnabled, wkCtl, wkFrames, now, pcs,
          spc, closeWait, microQ, mustClose, nStart, nStop, frames, stopInStart, stopInAvatar,
          nPc, nCand, owed, fatalText, logged, released, lastOp>>

\* The state as one record, so that a handler is a function from state to state
\* and a sequence of statements is a composition.  A handler starts with no log
\* entry of its own.
St ==
  [status |-> status, error |-> error, closing |-> closing,
   streamingEnabled |-> streamingEnabled, wsRef |-> wsRef,
   audioContextRef |-> audioContextRef, mediaStreamRef |-> mediaStreamRef,
   workletNodeRef |-> workletNodeRef, playbackNodes |-> playbackNodes,
   playbackCursor |-> playbackCursor, metrics |-> metrics,
   avatarState |-> avatarState, avatarPeerConnectionRef |-> avatarPeerConnectionRef,
   avatarRemoteStreamRef |-> avatarRemoteStreamRef,
   avatarCandidateQueue |-> avatarCandidateQueue, pcs |-> pcs,
   rs |-> rs, wire |-> wire, ctxState |-> ctxState, micState |-> micState,
   wkEnabled |-> wkEnabled, wkCtl |-> wkCtl, wkFrames |-> wkFrames, now |-> now,
   spc |-> spc, closeWait |-> closeWait, microQ |-> microQ, mustClose |-> mustClose,
   nStart |-> nStart, nStop |-> nStop, frames |-> frames,
   stopInStart |-> stopInStart, stopInAvatar |-> stopInAvatar, nPc |-> nPc, nCand |-> nCand, owed |-> owed,
   fatalText |-> fatalText, logged |-> <<>>, released |-> <<>>,
   lastOp |-> lastOp]

Becomes(n) ==
  /\ status' = n.status /\ error' = n.error /\ closing' = n.closing
  /\ streamingEnabled' = n.streamingEnabled /\ wsRef' = n.wsRef
  /\ audioContextRef' = n.audioContextRef /\ mediaStreamRef' = n.mediaStreamRef
  /\ workletNodeRef' = n.workletNodeRef /\ playbackNodes' = n.playbackNodes
  /\ playbackCursor' = n.playbackCursor /\ metrics' = n.metrics
  /\ avatarState' = n.avatarState /\ avatarPeerConnectionRef' = n.avatarPeerConnectionRef
  /\ avatarRemoteStreamRef' = n.avatarRemoteStreamRef
  /\ avatarCandidateQueue' = n.avatarCandidateQueue /\ pcs' = n.pcs
  /\ rs' = n.rs /\ wire' = n.wire /\ ctxState' = n.ctxState /\ micState' = n.micState
  /\ wkEnabled' = n.wkEnabled /\ wkCtl' = n.wkCtl /\ wkFrames' = n.wkFrames /\ now' = n.now
  /\ spc' = n.spc /\ closeWait' = n.closeWait /\ microQ' = n.microQ /\ mustClose' = n.mustClose
  /\ nStart' = n.nStart /\ nStop' = n.nStop /\ frames' = n.frames
  /\ stopInStart' = n.stopInStart /\ stopInAvatar' = n.stopInAvatar /\ nPc' = n.nPc /\ nCand' = n.nCand /\ owed' = n.owed
  /\ fatalText' = n.fatalText /\ logged' = n.logged /\ released' = n.released
  /\ lastOp' = n.lastOp

Max(a, b) == IF a >= b THEN a ELSE b

ZeroMetrics == [sentAudioBytes |-> 0, receivedAudioBytes |-> 0, responseCount |-> 0]
NoFrames == [sent |-> 0, received |-> 0]
NoWire == [first |-> "none", configure |-> 0, audio |-> 0, avatar |-> 0, late |-> FALSE]
\* A peer connection: its state, the shape of the negotiation that created it
\* ("client": the hook makes the offer; "server": the hook answers an offer),
\* the await its negotiation handler is suspended at, the await the handler of
\* the remote answer is suspended at, whether its descriptions are set, the
\* remote candidates added to it and those whose addIceCandidate is chained
\* behind a setRemoteDescription in progress, the socket the handler captured,
\* the number of local candidates it has gathered, the candidates that were
\* pending when it was created, and whether its connectionState is failed.
NoPc == [state |-> "none", shape |-> "none", step |-> "none", answer |-> "none",
         remote |-> FALSE, local |-> FALSE, applied |-> <<>>, chained |-> <<>>,
         ws |-> 0, gathered |-> 0, owed |-> <<>>, failed |-> FALSE]

Init ==
  /\ status = "idle" /\ error = "null" /\ closing = FALSE
  /\ streamingEnabled = FALSE /\ wsRef = 0 /\ audioContextRef = 0
  /\ mediaStreamRef = 0 /\ workletNodeRef = 0 /\ playbackNodes = {}
  /\ playbackCursor = 0 /\ metrics = ZeroMetrics
  /\ avatarState = "idle" /\ avatarPeerConnectionRef = 0 /\ avatarRemoteStreamRef = 0
  /\ avatarCandidateQueue = <<>>
  /\ pcs = [p \in PcIds |-> NoPc]
  /\ rs = [s \in StartIds |-> "none"]
  /\ wire = [s \in StartIds |-> NoWire]
  /\ ctxState = [s \in StartIds |-> "none"]
  /\ micState = [s \in StartIds |-> "none"]
  /\ wkEnabled = [s \in StartIds |-> FALSE]
  /\ wkCtl = [s \in StartIds |-> <<>>]
  /\ wkFrames = [s \in StartIds |-> 0]
  /\ now = 0
  /\ spc = [s \in StartIds |-> "new"]
  /\ closeWait = EmptyBag
  /\ microQ = <<>>
  /\ mustClose = 0
  /\ nStart = 0 /\ nStop = 0 /\ frames = NoFrames
  /\ stopInStart = FALSE /\ stopInAvatar = FALSE
  /\ nPc = 0 /\ nCand = 0 /\ owed = <<>>
  /\ fatalText = "null" /\ logged = <<>> /\ released = <<>>
  /\ lastOp = "init"

\* ------------------------------------------------------- browser objects

\* socket.close(): an open socket starts the closing handshake; closing a socket
\* that is still connecting fails the connection, which the browser reports
\* with an error event followed by a close event.
WsCloseCall(st, s) ==
  IF st.rs[s] = "open" THEN [st EXCEPT !.rs[s] = "closing"]
  ELSE IF st.rs[s] = "connecting" THEN [st EXCEPT !.rs[s] = "failing"]
  ELSE st

\* socket.send(data) on a socket whose readyState is OPEN; a socket that is
\* closing or closed discards the data.  The record of the socket keeps
\* whether a signalling message of the avatar was given to it then.
Send(st, s, kind) ==
  IF st.rs[s] = "open"
  THEN [st EXCEPT !.wire[s] =
          [@ EXCEPT !.first = IF @ = "none" THEN kind ELSE @, ![kind] = @ + 1]]
  ELSE IF kind = "avatar" THEN [st EXCEPT !.wire[s].late = TRUE]
  ELSE st

\* port.postMessage({type: 'setStreamingEnabled', data: on}) to the worklet
\* workletNodeRef refers to, if any.  The worklet only stores the value, so a
\* message that repeats the one posted just before it is not kept apart.
PostStreaming(st, on) ==
  LET w == st.workletNodeRef IN
  IF w # 0 /\ (st.wkCtl[w] = <<>> \/ st.wkCtl[w][Len(st.wkCtl[w])] # on)
  THEN [st EXCEPT !.wkCtl[w] = Append(@, on)]
  ELSE st

\* A continuation becomes ready: pc is where it continues ("start": start after
\* its await of stop(); "L302", "L347": cleanupAudioGraph at that line; "cont":
\* the caller of cleanupAudioGraph after its await; "client", "server": a
\* negotiation handler of the avatar after its await of
\* cleanupAvatarConnection), kind is who called cleanupAudioGraph ("stop",
\* "fatal", "catch" for start's catch block, "close" for ws.onclose, which does
\* not await it; "avatar" for a negotiation handler) and owner is the start()
\* call that awaits the stop() or runs the catch block, the socket a
\* negotiation handler read from wsRef, or 0.
Enqueue(st, pc, kind, owner) ==
  [st EXCEPT !.microQ = Append(@, [pc |-> pc, kind |-> kind, owner |-> owner])]

\* appendLog(level, message): the model keeps the entries of level warn and
\* error, by their level; the entries of level info are not kept.
appendLog(st, level) ==
  IF level \in {"warn", "error"} THEN [st EXCEPT !.logged = Append(@, level)] ELSE st

\* --------------------------------------------------------------- metrics

resetMetrics(st) == [st EXCEPT !.metrics = ZeroMetrics, !.frames = NoFrames]

updateMetrics(st, field, delta) == [st EXCEPT !.metrics[field] = @ + delta]

\* ---------------------------------------------------------------- avatar

\* pc.close(): of a closed connection the model keeps what the handlers still
\* suspended on it read, and the candidates that were added to it.
Closed(q) ==
  [NoPc EXCEPT !.state = "closed", !.shape = q.shape, !.step = q.step, !.answer = q.answer,
               !.ws = q.ws, !.applied = q.applied, !.owed = q.owed]

\* cleanupAvatarConnection without the close of the connection.
cleanupAvatarConnectionKeep(st) ==
  [st EXCEPT !.avatarPeerConnectionRef = 0,
             !.avatarCandidateQueue = <<>>,
             !.avatarRemoteStreamRef = 0,
             !.avatarState = "idle"]

cleanupAvatarConnection(st) ==
  LET pc == st.avatarPeerConnectionRef IN
  [st EXCEPT !.avatarPeerConnectionRef = 0,
             !.avatarCandidateQueue = <<>>,
             !.pcs = IF pc # 0 THEN [@ EXCEPT ![pc] = Closed(@)] ELSE @,
             !.avatarRemoteStreamRef = 0,
             !.avatarState = "idle"]

\* pc.addIceCandidate(c): the call is chained behind a setRemoteDescription in
\* progress; without one it adds the candidate if the remote description is
\* set and is rejected otherwise, as it is on a closed connection.
SetRemoteInProgress(q) == q.step = "setRemote" \/ q.answer = "setRemote"

addIceCandidate(st, p, c) ==
  LET q == st.pcs[p] IN
  IF q.state # "open" THEN st
  ELSE IF SetRemoteInProgress(q) THEN [st EXCEPT !.pcs[p].chained = Append(@, c)]
  ELSE IF q.remote THEN [st EXCEPT !.pcs[p].applied = Append(@, c)]
  ELSE st

\* The addIceCandidate calls of handleAvatarIceCandidate that were rejected: the
\* handler logs each at line 469.
RECURSIVE warnEach(_, _)
warnEach(st, cs) ==
  IF cs = <<>> THEN st ELSE warnEach(appendLog(st, "warn"), Tail(cs))

\* The setRemoteDescription of connection p has settled: the addIceCandidate
\* calls chained behind it run.
RemoteSettled(st, p, ok) ==
  LET a == [st EXCEPT !.pcs[p].remote = @ \/ ok,
                      !.pcs[p].applied = IF st.pcs[p].remote \/ ok THEN @ \o st.pcs[p].chained ELSE @,
                      !.pcs[p].chained = <<>>]
  IN IF st.pcs[p].remote \/ ok THEN a ELSE warnEach(a, st.pcs[p].chained)

handleAvatarIceCandidate(st, c) ==
  LET p == st.avatarPeerConnectionRef
      a == addIceCandidate(st, p, c) IN
  IF p # 0 THEN (IF a = st THEN appendLog(st, "warn") ELSE a)
  ELSE [st EXCEPT !.avatarCandidateQueue = Append(@, c), !.owed = Append(@, c)]

\* A negotiation that does not tear the previous connection down.
negotiateKeep(st, shape) ==
  LET ws == st.wsRef IN
  IF ws = 0 \/ st.rs[ws] # "open" THEN appendLog(st, "warn")
  ELSE Enqueue(st, shape, "avatar", ws)

\* handleAvatarSessionUpdated and handleAvatarOffer, to their await of
\* cleanupAvatarConnection: the handler continues in a microtask and keeps the
\* socket it read from wsRef.
negotiate(st, shape) ==
  LET ws == st.wsRef IN
  IF ws = 0 \/ st.rs[ws] # "open" THEN appendLog(st, "warn")
  ELSE Enqueue(cleanupAvatarConnection(st), shape, "avatar", ws)

\* The new RTCPeerConnection of a negotiation (lines 498-535 and 763-813).
newPeerConnection(st, shape, ws, step) ==
  LET p == st.nPc + 1 IN
  [st EXCEPT !.avatarState = "connecting",
             !.nPc = p,
             !.avatarPeerConnectionRef = p,
             !.avatarRemoteStreamRef = p,
             !.pcs[p] = [NoPc EXCEPT !.state = "open", !.shape = shape, !.step = step,
                                     !.ws = ws, !.owed = st.owed],
             !.owed = <<>>]

\* handleAvatarSessionUpdated, lines 498-641: the peer connection, its
\* handlers, and the call of createOffer, which the handler awaits.
handleAvatarSessionUpdatedBody(st, ws) == newPeerConnection(st, "client", ws, "createOffer")

\* handleAvatarSessionUpdated after an await; a failure is caught at line 691.
handleAvatarSessionUpdatedStep(st, p, ok) ==
  LET q == st.pcs[p] IN
  IF ~ok THEN [appendLog(st, "error") EXCEPT !.pcs[p].step = "done", !.avatarState = "idle"]
  ELSE CASE q.step = "createOffer" -> [st EXCEPT !.pcs[p].step = "setLocal"]
         [] q.step = "setLocal" -> [st EXCEPT !.pcs[p].step = "gather", !.pcs[p].local = TRUE]
         [] q.step = "gather" -> [Send(st, q.ws, "avatar") EXCEPT !.pcs[p].step = "done"]

\* handleAvatarAnswer, to its await of setRemoteDescription.
handleAvatarAnswer(st) ==
  LET p == st.avatarPeerConnectionRef IN
  IF p = 0 THEN appendLog(st, "warn") ELSE [st EXCEPT !.pcs[p].answer = "setRemote"]

\* The pending candidates are added to connection p, in the order of the
\* queue.
RECURSIVE addAll(_, _, _)
addAll(st, p, cs) ==
  IF cs = <<>> THEN st ELSE addAll(addIceCandidate(st, p, Head(cs)), p, Tail(cs))

\* handleAvatarAnswer after setRemoteDescription (lines 721-740).
handleAvatarAnswerTail(st, p, ok) ==
  LET a == [RemoteSettled(st, p, ok) EXCEPT !.pcs[p].answer = "done"] IN
  IF ~ok THEN [appendLog(a, "error") EXCEPT !.avatarState = "idle"]
  ELSE IF a.avatarCandidateQueue = <<>> THEN a
  ELSE [addAll(a, p, a.avatarCandidateQueue) EXCEPT !.avatarCandidateQueue = <<>>]

\* handleAvatarOffer, lines 763-917: the peer connection, its handlers, and
\* the call of setRemoteDescription, which the handler awaits.
handleAvatarOfferBody(st, ws) == newPeerConnection(st, "server", ws, "setRemote")

\* handleAvatarOffer after an await; a failure is caught at line 950, where
\* the handler calls cleanupAvatarConnection.
handleAvatarOfferStep(st, p, ok) ==
  LET q == st.pcs[p] IN
  IF q.step = "setRemote"
  THEN LET a == RemoteSettled(st, p, ok) IN
       IF ~ok THEN cleanupAvatarConnection([appendLog(a, "error") EXCEPT !.pcs[p].step = "done"])
       ELSE [addAll([a EXCEPT !.avatarCandidateQueue = <<>>], p, a.avatarCandidateQueue)
               EXCEPT !.pcs[p].step = "createAnswer"]
  ELSE IF ~ok THEN cleanupAvatarConnection([appendLog(st, "error") EXCEPT !.pcs[p].step = "done"])
  ELSE CASE q.step = "createAnswer" -> [st EXCEPT !.pcs[p].step = "setLocal"]
         [] q.step = "setLocal" ->
              [Send(st, q.ws, "avatar") EXCEPT !.pcs[p].step = "done", !.pcs[p].local = TRUE]

\* peerConnection.onicecandidate for a local candidate: the handler of the
\* client shape sends on the socket it captured (lines 600-615), the handler
\* of the server shape on wsRef if that socket is open (lines 854-882).
pcOnIceCandidate(st, p) ==
  LET q == st.pcs[p]
      socket == st.wsRef IN
  IF q.shape = "client" THEN Send(st, q.ws, "avatar")
  ELSE IF socket = 0 \/ st.rs[socket] # "open" THEN st
  ELSE Send(st, socket, "avatar")

\* peerConnection.ontrack (lines 547-597 and 827-852).
pcOnTrack(st, p) ==
  IF st.pcs[p].shape = "client"
  THEN IF st.avatarState = "connecting" THEN [st EXCEPT !.avatarState = "ready"] ELSE st
  ELSE [st EXCEPT !.avatarRemoteStreamRef = p, !.avatarState = "ready"]

\* peerConnection.onconnectionstatechange for the state failed (lines 618-631
\* and 884-898).
pcOnConnectionStateChange(st, p) ==
  IF st.pcs[p].shape = "client"
  THEN [appendLog(st, "error") EXCEPT !.avatarState = "idle"]
  ELSE appendLog(st, "warn")

\* --------------------------------------------------------------- teardown

\* The cleanupAudioGraph runs in flight: those that await audioContext.close()
\* and those whose continuation, or whose caller's, waits in the microtask queue.
InFlight(st) ==
  BagCardinality(st.closeWait)
    + Cardinality({i \in 1..Len(st.microQ) : st.microQ[i].pc \in {"L302", "L347", "cont"}})

HasFreeTd(st) == InFlight(st) < MaxTd

\* cleanupAudioGraph, from its call to its first await: cleanupAvatarConnection
\* has no await of its own and runs at once; the rest of cleanupAudioGraph is a
\* microtask.
cleanupAudioGraphCall(st, kind, owner) ==
  Enqueue([cleanupAvatarConnection(st) EXCEPT !.owed = <<>>], "L302", kind, owner)

\* cleanupAudioGraph has returned: whoever awaits it continues in a microtask.
cleanupAudioGraphReturn(st, kind, owner) ==
  IF kind = "close" THEN st ELSE Enqueue(st, "cont", kind, owner)

\* cleanupAudioGraph, lines 302-343: everything up to the await of
\* audioContext.close().  In the order of the statements the function clears
\* the streaming flag ("disable", line 302), disconnects the worklet node
\* ("node", line 306), posts setStreamingEnabled false to it ("tell", line
\* 307), disconnects the source and gain nodes ("node", lines 311-321) and
\* stops the tracks of the microphone's stream ("microphone", lines 334-338).  close() on a context that is already closed returns
\* a rejected promise, so the function continues in a microtask; otherwise it
\* waits until the context has closed.
cleanupAudioGraphBody(st, kind, owner) ==
  LET m == st.mediaStreamRef
      c == st.audioContextRef
      w == st.workletNodeRef
      a == [PostStreaming([st EXCEPT !.streamingEnabled = FALSE], FALSE) EXCEPT
              !.released = <<"disable">>
                             \o (IF w # 0 THEN <<"node", "tell", "node">> ELSE <<>>)
                             \o (IF m # 0 THEN <<"microphone">> ELSE <<>>),
              !.workletNodeRef = 0,
              !.playbackNodes = {},
              !.playbackCursor = 0,
              !.micState = IF m # 0 THEN [@ EXCEPT ![m] = "stopped"] ELSE @,
              !.mediaStreamRef = 0]
  IN IF c = 0 THEN cleanupAudioGraphReturn(a, kind, owner)
     ELSE IF a.ctxState[c] = "closed" THEN Enqueue(a, "L347", kind, owner)
     ELSE [a EXCEPT !.closeWait = @ (+) SetToBag({[kind |-> kind, owner |-> owner, ctx |-> c]}),
                    !.ctxState[c] = "closing"]

\* cleanupAudioGraph, line 347, after the await of audioContext.close().
cleanupAudioGraphTail(st, kind, owner) ==
  cleanupAudioGraphReturn([st EXCEPT !.audioContextRef = 0], kind, owner)

\* The text of a session.error without a message, and of a call of
\* handleFatalError with an empty one.
DefaultError == "session error"

\* handleFatalError, to its await of cleanupAudioGraph.
handleFatalError(st, message) ==
  LET ws == st.wsRef
      detail == IF message = "" THEN DefaultError ELSE message
      a == [appendLog(st, "error") EXCEPT !.error = detail, !.fatalText = detail,
                                          !.streamingEnabled = FALSE, !.closing = TRUE]
      b == IF ws # 0 THEN WsCloseCall(a, ws) ELSE a
  IN cleanupAudioGraphCall([b EXCEPT !.wsRef = 0], "fatal", 0)

\* handleFatalError, after its await of cleanupAudioGraph (lines 371-373).
handleFatalErrorTail(st) ==
  [st EXCEPT !.status = "error", !.closing = FALSE]

\* stop without its guard on closingRef.
stopUnguarded(st, owner) ==
  LET ws == st.wsRef
      a == [st EXCEPT !.closing = TRUE, !.status = "stopping"]
      b == IF ws # 0 THEN WsCloseCall(a, ws) ELSE a
  IN cleanupAudioGraphCall([b EXCEPT !.wsRef = 0], "stop", owner)

\* stop, to its await of cleanupAudioGraph; owner is the start() call that
\* awaits this stop(), or 0.  A stop() that finds closingRef set returns at
\* once, and a start() that awaits it continues in a microtask.
stop(st, owner) ==
  IF st.closing
  THEN IF owner # 0 THEN Enqueue(st, "start", "start", owner) ELSE st
  ELSE LET ws == st.wsRef
           a == [st EXCEPT !.closing = TRUE, !.status = "stopping"]
           b == IF ws # 0 THEN WsCloseCall(a, ws) ELSE a
       IN cleanupAudioGraphCall([b EXCEPT !.wsRef = 0], "stop", owner)

\* stop, after its await of cleanupAudioGraph (lines 398-401); the start() that
\* awaits this stop() continues in a microtask.
stopTail(st, owner) ==
  LET a == [st EXCEPT !.status = "idle", !.closing = FALSE]
  IN IF owner # 0 THEN Enqueue(a, "start", "start", owner) ELSE a

\* ------------------------------------------------------------------ start

\* start, lines 1046-1061: the reset, the new AudioContext and the call of
\* resume(), which start awaits.
startBody(st, s) ==
  LET a == resetMetrics([st EXCEPT !.closing = FALSE, !.streamingEnabled = FALSE])
  IN [a EXCEPT !.error = "null",
               !.avatarCandidateQueue = <<>>,
               !.owed = <<>>,
               !.avatarState = "idle",
               !.status = "connecting",
               !.ctxState[s] = "running",
               !.spc[s] = "resume"]

\* start, lines 1042-1044: a start() that finds the session connecting or
\* ready calls stop() and awaits it.
start(st, s) ==
  IF st.status \in {"connecting", "ready"}
  THEN stop([st EXCEPT !.spc[s] = "awaitStop"], s)
  ELSE startBody(st, s)

\* start's catch block, to its await of cleanupAudioGraph (lines 1217-1221).
startCatch(st, s) ==
  cleanupAudioGraphCall([appendLog(st, "error") EXCEPT !.error = "init", !.spc[s] = "catch"],
                        "catch", s)

\* start's catch block, after its await (lines 1222-1233).
startCatchTail(st, owner) ==
  LET ws == st.wsRef
      a == IF ws # 0 /\ st.rs[ws] = "connecting" THEN WsCloseCall(st, ws) ELSE st
  IN [a EXCEPT !.wsRef = 0, !.status = "error", !.closing = FALSE,
               !.spc[owner] = "done"]

\* start, lines 1062-1068, after resume(): ok says whether resume() resolved.
startAfterResume(st, s, ok) ==
  IF ok THEN [st EXCEPT !.audioContextRef = s, !.spc[s] = "addModule"]
  ELSE startCatch(st, s)

\* start, lines 1069-1083, after addModule().
startAfterAddModule(st, s, ok) ==
  IF ok THEN [st EXCEPT !.spc[s] = "getUserMedia"]
  ELSE startCatch(st, s)

\* start, lines 1084-1216, after getUserMedia(): the capture graph and the
\* socket.  nodeThrows says whether creating a node on the audio context
\* throws, which a browser may do when the context has been closed.
startAfterGetUserMedia(st, s, ok, nodeThrows) ==
  IF ~ok THEN startCatch(st, s)
  ELSE LET a == [st EXCEPT !.mediaStreamRef = s, !.micState[s] = "live"]
       IN IF nodeThrows THEN startCatch(a, s)
          ELSE [a EXCEPT !.workletNodeRef = s,
                         !.rs[s] = "connecting",
                         !.wsRef = s,
                         !.spc[s] = "done"]

\* ---------------------------------------------------------------- playback

\* handleServerAudio that starts every buffer at the current time.
handleServerAudioNow(st, len) ==
  LET samples == len \div PCM_FRAME_SIZE
      startAt == st.now
  IN IF st.audioContextRef = 0 THEN appendLog(st, "warn")
     ELSE IF samples = 0 THEN appendLog(st, "warn")
     ELSE updateMetrics(
            [st EXCEPT !.playbackCursor = startAt + samples,
                       !.playbackNodes = @ \cup {[start |-> startAt, dur |-> samples, stopped |-> FALSE]}],
            "receivedAudioBytes", len)

\* handleServerAudio for a binary frame of len bytes.
handleServerAudio(st, len) ==
  LET samples == len \div PCM_FRAME_SIZE
      startAt == Max(st.now, st.playbackCursor)
  IN IF st.audioContextRef = 0 THEN appendLog(st, "warn")
     ELSE IF samples = 0 THEN appendLog(st, "warn")
     ELSE updateMetrics(
            [st EXCEPT !.playbackCursor = startAt + samples,
                       !.playbackNodes = @ \cup {[start |-> startAt, dur |-> samples, stopped |-> FALSE]}],
            "receivedAudioBytes", len)

\* A flush that stops no node.
StopNodesNone(nodes) == nodes

\* node.stop() for every node of playbackNodesRef (lines 976-982).
StopNodes(nodes) == {[n EXCEPT !.stopped = TRUE] : n \in nodes}

\* handleServerEvent; data is the candidate of an avatar.ice_candidate event.
\* A session.updated event carries the avatar's ICE servers.
handleServerEvent(st, event, data) ==
  CASE event = "session.updated" ->
         IF st.avatarState # "ready" THEN negotiate(st, "client") ELSE st
    [] event = "avatar.offer" -> negotiate(st, "server")
    [] event = "avatar.answer" -> handleAvatarAnswer(st)
    [] event = "avatar.ice_candidate" -> handleAvatarIceCandidate(st, data)
    [] event = "input.speech_started" ->
         [st EXCEPT !.playbackNodes = StopNodes(@),
                    !.playbackCursor = IF st.audioContextRef # 0 THEN st.now ELSE 0]
    [] event = "response.done" -> updateMetrics(st, "responseCount", 1)
    [] event \in {"avatar.stream_started", "avatar.ready"} ->
         [appendLog(st, "info") EXCEPT !.avatarState = "ready"]
    [] event = "avatar.stream_stopped" ->
         cleanupAvatarConnection([appendLog(st, "warn") EXCEPT !.avatarState = "idle"])
    [] OTHER -> IF event # "" THEN appendLog(st, "info") ELSE st

\* ----------------------------------------------------------- socket events

\* ws.onopen without the configuration handshake.
wsOnOpenSilent(st, s) == st

\* ws.onopen: the configuration handshake.
wsOnOpen(st, s) == Send(st, s, "configure")

\* ws.onmessage for a text frame of the given type, a text frame that is not
\* JSON ("malformed"), or a binary frame.  The argument of a session.error is
\* its message, empty when it has none.
wsOnMessage(st, s, type, arg, data) ==
  CASE type = "session.ready" ->
         [PostStreaming([st EXCEPT !.streamingEnabled = TRUE], TRUE) EXCEPT !.status = "ready"]
    [] type = "session.event" -> handleServerEvent(st, arg, data)
    [] type = "session.error" ->
         handleFatalError(PostStreaming([st EXCEPT !.streamingEnabled = FALSE], FALSE), arg)
    [] type = "binary" -> handleServerAudio(st, arg)
    [] type = "malformed" -> appendLog(st, "warn")
    [] OTHER -> appendLog(st, "warn")

\* ws.onerror.
wsOnError(st, s) ==
  IF st.status = "error" THEN st
  ELSE IF ~st.closing
    THEN handleFatalError([st EXCEPT !.streamingEnabled = FALSE], "transport")
    ELSE st

\* ws.onclose without its return when closingRef is set.
wsOnCloseUnguarded(st, s) ==
  LET a == [st EXCEPT !.wsRef = 0, !.streamingEnabled = FALSE]
  IN IF a.status = "error" THEN a
     ELSE LET b == IF a.status = "ready" THEN appendLog(a, "warn") ELSE a
          IN [cleanupAudioGraphCall(b, "close", 0) EXCEPT !.status = "idle"]

\* ws.onclose that treats a close it did not expect as a fatal error.
wsOnCloseFatal(st, s) ==
  LET a == [st EXCEPT !.wsRef = 0, !.streamingEnabled = FALSE]
  IN IF a.status = "error" THEN a
     ELSE IF a.closing THEN a
     ELSE handleFatalError(a, "transport")

\* ws.onclose.
wsOnClose(st, s) ==
  LET a == [st EXCEPT !.wsRef = 0, !.streamingEnabled = FALSE]
  IN IF a.status = "error" THEN a
     ELSE IF a.closing THEN a
     ELSE LET b == IF a.status = "ready" THEN appendLog(a, "warn") ELSE a
          IN [cleanupAudioGraphCall(b, "close", 0) EXCEPT !.status = "idle"]

\* workletNode.port.onmessage for an audioData message.
workletOnMessage(st) ==
  LET socket == st.wsRef IN
  IF socket # 0 /\ st.rs[socket] = "open"
  THEN [updateMetrics(Send(st, socket, "audio"), "sentAudioBytes", SentFrameBytes)
          EXCEPT !.frames.sent = @ + SentFrameBytes]
  ELSE st

\* ---------------------------------------------------------------- actions

\* lastOp records the calls and events the properties below tell apart by
\* name; every other step is recorded as "-".
Recorded == {"stop.noop", "close.expected", "close.unexpected"}
Tag(st, op) == [st EXCEPT !.lastOp = IF op \in Recorded THEN op ELSE "-"]

\* No microtask is pending and no event handler is half way through its task:
\* the event loop may run the next task.
Quiet == microQ = <<>> /\ mustClose = 0

\* The embedding component calls start(config).
Start ==
  /\ Quiet /\ nStart < MaxStarts /\ HasFreeTd(St)
  /\ LET s == nStart + 1
     IN Becomes(Tag(start([St EXCEPT !.nStart = s, !.stopInStart = FALSE,
                                             !.stopInAvatar = FALSE], s), "start"))

\* The embedding component calls stop().
Stop ==
  /\ Quiet /\ nStop < MaxStops /\ HasFreeTd(St)
  /\ LET during == ~closing /\ status = "connecting"
         a == [St EXCEPT !.nStop = @ + 1,
                         !.stopInStart = IF during THEN TRUE ELSE @,
                         !.stopInAvatar = IF ~closing /\ avatarState = "connecting" THEN TRUE ELSE @]
     IN Becomes(Tag(stop(a, 0), IF closing THEN "stop.noop" ELSE "stop"))

\* The continuation at the head of the microtask queue runs.
RunMicrotask(st, h) ==
  CASE h.pc = "start" -> Tag(startBody(st, h.owner), "start.body")
    [] h.pc = "client" -> Tag(handleAvatarSessionUpdatedBody(st, h.owner), "avatar.updated")
    [] h.pc = "server" -> Tag(handleAvatarOfferBody(st, h.owner), "avatar.offer")
    [] h.pc = "L302" -> Tag(cleanupAudioGraphBody(st, h.kind, h.owner), "cleanup")
    [] h.pc = "L347" -> Tag(cleanupAudioGraphTail(st, h.kind, h.owner), "cleanup.tail")
    [] h.pc = "cont" /\ h.kind = "stop" -> Tag(stopTail(st, h.owner), "stop.done")
    [] h.pc = "cont" /\ h.kind = "fatal" -> Tag(handleFatalErrorTail(st), "fatal.done")
    [] h.pc = "cont" /\ h.kind = "catch" -> Tag(startCatchTail(st, h.owner), "catch.done")

Microtask ==
  /\ microQ # <<>>
  /\ Becomes(RunMicrotask([St EXCEPT !.microQ = Tail(@)], Head(microQ)))

\* audioContext.close() has closed the context; cleanupAudioGraph continues.
AudioContextClosed(r) ==
  /\ Quiet /\ BagIn(r, closeWait)
  /\ Becomes(Tag(cleanupAudioGraphTail(
                   [St EXCEPT !.ctxState[r.ctx] = "closed",
                              !.closeWait = @ (-) SetToBag({r})],
                   r.kind, r.owner),
                 "cleanup.tail"))

ResumeSettled(s, ok) ==
  /\ Quiet /\ spc[s] = "resume" /\ HasFreeTd(St)
  /\ Becomes(Tag(startAfterResume(St, s, ok), "start.resumed"))

AddModuleSettled(s, ok) ==
  /\ Quiet /\ spc[s] = "addModule" /\ HasFreeTd(St)
  /\ Becomes(Tag(startAfterAddModule(St, s, ok), "start.module"))

GetUserMediaSettled(s, ok, nodeThrows) ==
  /\ Quiet /\ spc[s] = "getUserMedia" /\ HasFreeTd(St)
  /\ nodeThrows => ok /\ ctxState[s] \in {"closing", "closed"}
  /\ Becomes(Tag(startAfterGetUserMedia(St, s, ok, nodeThrows), "start.media"))

\* The connection of socket s is established.
WsOpen(s) ==
  /\ Quiet /\ rs[s] = "connecting"
  /\ Becomes(Tag(wsOnOpen([St EXCEPT !.rs[s] = "open"], s), "ws.open"))

\* The messages of the server: the session's life cycle, and its audio.
LifecycleMessages ==
  {<<"session.ready", "">>, <<"session.error", "">>, <<"session.error", "server">>}
AudioMessages ==
  {<<"session.event", "input.speech_started">>, <<"session.event", "response.done">>}
    \cup {<<"binary", len>> : len \in RecvFrameLens}

AvatarMessages ==
  {<<"session.event", e>> : e \in {"session.updated", "avatar.offer", "avatar.answer", "avatar.ice_candidate"}}

\* What the server reports of the avatar's video stream.
AvatarStreamMessages ==
  {<<"session.event", e>> : e \in {"avatar.stream_started", "avatar.ready", "avatar.stream_stopped"}}

\* The frames the hook has no case for: a text frame that is not JSON, a
\* message of a type it does not know, and a session.event of a name it does
\* not know or without a name.
StrayMessages ==
  {<<"malformed", "">>, <<"session.unknown", "">>,
   <<"session.event", "unknown.event">>, <<"session.event", "">>}

\* The bounds of the counters a message would raise.

WithinBounds(type, arg) ==
  /\ type = "binary" => frames.received + arg <= MaxBytes
  /\ type = "session.event" /\ arg = "response.done" => metrics.responseCount < MaxResponses
  /\ type = "session.event" /\ arg \in {"session.updated", "avatar.offer"} => nPc < MaxPc
  /\ type = "session.event" /\ arg = "avatar.ice_candidate" => nCand < MaxCands
  /\ type = "session.event" /\ arg = "avatar.answer" =>
        avatarPeerConnectionRef # 0 /\ pcs[avatarPeerConnectionRef].answer = "none"

\* A message of the server arrives on socket s.
WsDeliver(s, type, arg) ==
  /\ Quiet /\ rs[s] = "open" /\ HasFreeTd(St)
  /\ LET a == IF type = "binary" THEN [St EXCEPT !.frames.received = @ + arg]
              ELSE IF type = "session.event" /\ arg = "avatar.ice_candidate" THEN [St EXCEPT !.nCand = @ + 1]
              ELSE St
     IN Becomes(Tag(wsOnMessage(a, s, type, arg, a.nCand), type))

\* A message of the server arrives on socket s, within the bounds.
WsMessage(s, type, arg) == WithinBounds(type, arg) /\ WsDeliver(s, type, arg)

\* A negotiation is triggered when a peer connection has been created before.
Renegotiation(s, e) ==
  /\ nPc >= MaxPc /\ nPc < MaxRenegotiated
  /\ WsDeliver(s, "session.event", e)

\* The connection of socket s fails: the error event, with the close event to
\* follow in the same task.
WsError(s) ==
  /\ Quiet /\ rs[s] \in {"connecting", "open", "failing"} /\ HasFreeTd(St)
  /\ Becomes(Tag(wsOnError([St EXCEPT !.rs[s] = "closed", !.mustClose = s], s), "ws.error"))

\* The close event of socket s: after an error event, after the closing
\* handshake the hook started, or because the server closed the connection.
WsClose(s) ==
  /\ microQ = <<>> /\ HasFreeTd(St)
  /\ \/ mustClose = s
     \/ mustClose = 0 /\ rs[s] \in {"open", "closing"}
  /\ Becomes(Tag(wsOnClose([St EXCEPT !.rs[s] = "closed", !.mustClose = 0], s),
                 IF closing THEN "close.expected"
                 ELSE IF status = "ready" THEN "close.unexpected" ELSE "ws.close"))

\* An await of the negotiation handler of connection p settles.  A call on a
\* closed connection is rejected; the wait for the ICE gathering always ends
\* (line 664), and the handler then reads localDescription, which a closed
\* connection may or may not still have (line 672).
NegotiationStep(p, ok) ==
  /\ Quiet /\ pcs[p].step \notin {"none", "done"}
  /\ ok => pcs[p].state = "open" \/ pcs[p].step = "gather"
  /\ pcs[p].step = "gather" => ok \/ pcs[p].state = "closed"
  /\ Becomes(Tag(IF pcs[p].shape = "client" THEN handleAvatarSessionUpdatedStep(St, p, ok)
                  ELSE handleAvatarOfferStep(St, p, ok),
                 "avatar.step"))

\* The setRemoteDescription of the remote answer settles.
AnswerSettled(p, ok) ==
  /\ Quiet /\ pcs[p].answer = "setRemote"
  /\ ok => pcs[p].state = "open" /\ pcs[p].local
  /\ Becomes(Tag(handleAvatarAnswerTail(St, p, ok), "avatar.answered"))

\* Connection p has gathered a local candidate.
LocalCandidate(p) ==
  /\ Quiet /\ pcs[p].state = "open" /\ pcs[p].local /\ pcs[p].gathered < MaxLocalCands
  /\ Becomes(Tag(pcOnIceCandidate([St EXCEPT !.pcs[p].gathered = @ + 1], p), "avatar.local"))

\* The connectionState of connection p becomes failed.
ConnectionFailed(p) ==
  /\ Quiet /\ pcs[p].state = "open" /\ pcs[p].local /\ pcs[p].remote /\ ~pcs[p].failed
  /\ Becomes(Tag(pcOnConnectionStateChange([St EXCEPT !.pcs[p].failed = TRUE], p), "avatar.failed"))

\* Connection p receives the remote media.
Track(p) ==
  /\ Quiet /\ pcs[p].state = "open" /\ pcs[p].remote /\ pcs[p].local /\ ~pcs[p].failed
  /\ pcOnTrack(St, p) # St
  /\ Becomes(Tag(pcOnTrack(St, p), "avatar.track"))

\* The audio thread: the worklet receives a setStreamingEnabled message.  The
\* audio thread runs beside the main thread; the main thread reads none of the
\* worklet's state before its next task, so the steps of the audio thread are
\* taken between the tasks of the main thread.
WorkletReceive(w) ==
  /\ Quiet /\ wkCtl[w] # <<>>
  /\ wkEnabled' = [wkEnabled EXCEPT ![w] = Head(wkCtl[w])]
  /\ wkCtl' = [wkCtl EXCEPT ![w] = Tail(@)]
  /\ lastOp' = "-"
  /\ UNCHANGED <<status, error, closing, streamingEnabled, wsRef, audioContextRef,
          mediaStreamRef, workletNodeRef, playbackNodes, playbackCursor, metrics,
          avatarState, avatarPeerConnectionRef, avatarRemoteStreamRef, avatarCandidateQueue,
          rs, wire, ctxState, micState, wkFrames, now, pcs,
          spc, closeWait, microQ, mustClose, nStart, nStop, frames, stopInStart, stopInAvatar,
          nPc, nCand, owed, fatalText>>
  /\ logged' = <<>> /\ released' = <<>>

\* The audio thread: AudioStreamProcessor.process posts a frame when streaming
\* is enabled.  The worklet of start() call w exists once that call has built
\* its capture graph, and it has input while the graph is connected to a live
\* microphone, which cleanupAudioGraph ends for the nodes and the stream its
\* refs hold.
process(enabled, posted) == IF enabled THEN posted + 1 ELSE posted

WorkletProcess(w) ==
  /\ Quiet /\ rs[w] # "none" /\ ctxState[w] \in {"running", "closing"} /\ micState[w] = "live"
  /\ wkFrames[w] < MaxInFlight
  /\ frames.sent + SentFrameBytes <= MaxSent
  /\ wkFrames' = [wkFrames EXCEPT ![w] = process(wkEnabled[w], @)]
  /\ wkFrames'[w] # wkFrames[w]
  /\ lastOp' = "-"
  /\ UNCHANGED <<status, error, closing, streamingEnabled, wsRef, audioContextRef,
          mediaStreamRef, workletNodeRef, playbackNodes, playbackCursor, metrics,
          avatarState, avatarPeerConnectionRef, avatarRemoteStreamRef, avatarCandidateQueue,
          rs, wire, ctxState, micState, wkEnabled, wkCtl, now, pcs,
          spc, closeWait, microQ, mustClose, nStart, nStop, frames, stopInStart, stopInAvatar,
          nPc, nCand, owed, fatalText>>
  /\ logged' = <<>> /\ released' = <<>>

\* The audio thread: the clock of the audio context advances by one sample.
Tick ==
  /\ Quiet /\ now < MaxNow /\ \E s \in StartIds : ctxState[s] = "running"
  /\ Becomes(Tag([St EXCEPT !.now = @ + 1], "tick"))

\* sourceNode.onended (lines 441-444): a node that was stopped or has played
\* to its end leaves playbackNodesRef.
sourceNodeOnEnded(st, n) == [st EXCEPT !.playbackNodes = @ \ {n}]

NodeEnded(n) ==
  /\ Quiet /\ n \in playbackNodes /\ (n.stopped \/ now >= n.start + n.dur)
  /\ Becomes(Tag(sourceNodeOnEnded(St, n), "node.ended"))

\* The audioData message of worklet w reaches the main thread.
WorkletFrame(w) ==
  /\ Quiet /\ wkFrames[w] > 0
  /\ Becomes(Tag(workletOnMessage([St EXCEPT !.wkFrames[w] = @ - 1]), "worklet.frame"))

\* start() is called once every earlier start() call has returned.
StartSettled == (\A s \in StartIds : spc[s] \in {"new", "done"}) /\ Start

\* start() is called for the first time.
StartOnce == nStart = 0 /\ Start

\* The continuations of start(), stop() and the teardowns, the calls of
\* stop(), and the events of the sockets.
Session ==
  \/ Stop
  \/ Microtask
  \/ \E r \in BagToSet(closeWait) : AudioContextClosed(r)
  \/ \E s \in StartIds, ok \in BOOLEAN : ResumeSettled(s, ok)
  \/ \E s \in StartIds, ok \in BOOLEAN : AddModuleSettled(s, ok)
  \/ \E s \in StartIds, ok \in BOOLEAN, nodeThrows \in BOOLEAN : GetUserMediaSettled(s, ok, nodeThrows)
  \/ \E s \in StartIds : WsOpen(s)
  \/ \E s \in StartIds, m \in LifecycleMessages : WsMessage(s, m[1], m[2])
  \/ \E s \in StartIds : WsError(s)
  \/ \E s \in StartIds : WsClose(s)

\* The avatar: the signalling messages of the server and the events of the
\* peer connections.
Avatar ==
  \/ \E s \in StartIds, m \in AvatarMessages : WsMessage(s, m[1], m[2])
  \/ \E p \in PcIds, ok \in BOOLEAN : NegotiationStep(p, ok)
  \/ \E p \in PcIds, ok \in BOOLEAN : AnswerSettled(p, ok)
  \/ \E p \in PcIds : LocalCandidate(p)
  \/ \E p \in PcIds : Track(p)

\* A second trigger of the negotiation.
Renegotiate ==
  \E s \in StartIds, e \in {"session.updated", "avatar.offer"} : Renegotiation(s, e)

\* The failures of the peer connections.
AvatarFaults == \E p \in PcIds : ConnectionFailed(p)

\* The server's reports of the avatar's video stream.
AvatarStream ==
  \E s \in StartIds, m \in AvatarStreamMessages : WsMessage(s, m[1], m[2])

\* The frames the hook has no case for.
Stray == \E s \in StartIds, m \in StrayMessages : WsMessage(s, m[1], m[2])

\* The audio the microphone captures.
Capture ==
  \/ \E w \in StartIds : WorkletReceive(w)
  \/ \E w \in StartIds : WorkletProcess(w)
  \/ \E w \in StartIds : WorkletFrame(w)

\* The audio and the events of the server's responses.
Playback == \E s \in StartIds, m \in AudioMessages : WsMessage(s, m[1], m[2])

\* The clock of the audio context and the end of the playback nodes.
Clock == Tick \/ \E n \in playbackNodes : NodeEnded(n)

\* The life cycle of the session under every interleaving of the calls of
\* start() and stop() with the continuations and the socket's events.
Next == Start \/ Session

Spec == Init /\ [][Next]_vars

\* The capture path, through sessions started one after the other.
NextCapture == StartSettled \/ Session \/ Capture

SpecCapture == Init /\ [][NextCapture]_vars

\* The playback path, through sessions started one after the other.
NextPlayback == StartSettled \/ Session \/ Playback

SpecPlayback == Init /\ [][NextPlayback]_vars

\* The avatar's negotiation and the capture path in one session.
NextAvatar == StartOnce \/ Session \/ Avatar \/ Capture

SpecAvatar == Init /\ [][NextAvatar]_vars

\* The avatar's negotiation and its failures in one session.
NextNegotiation == StartOnce \/ Session \/ Avatar \/ AvatarFaults \/ AvatarStream

SpecNegotiation == Init /\ [][NextNegotiation]_vars

\* One session that receives frames the hook has no case for.
NextStray == StartOnce \/ Session \/ Stray

SpecStray == Init /\ [][NextStray]_vars

\* The playback schedule of one session against the audio context's clock.
NextSchedule == StartOnce \/ Session \/ Playback \/ Clock

SpecSchedule == Init /\ [][NextSchedule]_vars

\* start() runs to an open socket without a failure, and the session is
\* made ready.
Connect ==
  \/ Microtask
  \/ \E s \in StartIds : ResumeSettled(s, TRUE)
  \/ \E s \in StartIds : AddModuleSettled(s, TRUE)
  \/ \E s \in StartIds : GetUserMediaSettled(s, TRUE, FALSE)
  \/ \E s \in StartIds : WsOpen(s)
  \/ \E s \in StartIds : WsMessage(s, "session.ready", "")

\* The avatar's negotiation, triggered a second time, in a session that is
\* not torn down.
NextRenegotiation == StartOnce \/ Connect \/ Avatar \/ Renegotiate

SpecRenegotiation == Init /\ [][NextRenegotiation]_vars

\* ------------------------------------------------------------- properties

\* What the hook and the browser hold: every variable but the histories.
held == <<status, error, closing, streamingEnabled, wsRef, audioContextRef,
          mediaStreamRef, workletNodeRef, playbackNodes, playbackCursor, metrics,
          avatarState, avatarPeerConnectionRef, avatarRemoteStreamRef, avatarCandidateQueue,
          rs, wire, ctxState, micState, wkEnabled, wkCtl, wkFrames, now, pcs,
          spc, closeWait, microQ, mustClose>>

\* The cleanupAudioGraph runs in flight that were called by kind.
TeardownsOf(kind) ==
  {r \in BagToSet(closeWait) : r.kind = kind}
    \cup {[kind |-> kind, owner |-> microQ[i].owner, at |-> i] :
            i \in {j \in 1..Len(microQ) : microQ[j].pc \in {"L302", "L347", "cont"}
                                             /\ microQ[j].kind = kind}}

\* The continuation of kind after its await of cleanupAudioGraph runs next.
TailOf(kind) ==
  /\ microQ # <<>> /\ Head(microQ).pc = "cont" /\ Head(microQ).kind = kind
  /\ Microtask

\* C1: a stop() that is called while closingRef is set does nothing: it
\* closes no socket, starts no cleanupAudioGraph and writes no status; and the
\* stop() whose teardown is in flight ends with status idle and closingRef
\* cleared.
C1_StopReentrant ==
  [][ /\ (closing /\ Stop) => UNCHANGED held
      /\ TailOf("stop") => status' = "idle" /\ ~closing' ]_vars

\* A second stop() has been called during the teardown of the first.
C1_Witness ==
  lastOp = "stop.noop" /\ nStop = 2 /\ status = "stopping" /\ TeardownsOf("stop") # {}

\* No start() is running and no teardown is in flight.
AllReturned ==
  /\ \A s \in StartIds : spc[s] \in {"new", "done"}
  /\ microQ = <<>> /\ closeWait = EmptyBag /\ mustClose = 0

\* No session resource is held: no socket is open or connecting, no
\* microphone is live, no audio context is running, and the refs are null.
Released ==
  /\ wsRef = 0 /\ \A s \in StartIds : rs[s] \in {"none", "closing", "closed"}
  /\ mediaStreamRef = 0 /\ \A s \in StartIds : micState[s] # "live"
  /\ audioContextRef = 0 /\ \A s \in StartIds : ctxState[s] \in {"none", "closed"}
  /\ workletNodeRef = 0
  /\ avatarPeerConnectionRef = 0 /\ \A p \in PcIds : pcs[p].state # "open"

\* C2: when stop() was called while a start() was connecting, then once both
\* calls have finished the status is idle and every resource is released.
C2_StopDuringStart == stopInStart /\ AllReturned => status = "idle" /\ Released

\* The changes of status that the session's state machine allows.
Transitions ==
  {<<"idle", "connecting">>, <<"connecting", "ready">>, <<"connecting", "error">>,
   <<"ready", "error">>, <<"connecting", "stopping">>, <<"ready", "stopping">>,
   <<"stopping", "idle">>, <<"error", "connecting">>}

\* C3: every change of status is one of the allowed transitions; in
\* particular status never goes from ready to connecting in one step.
C3_Transitions == [][status' # status => <<status, status'>> \in Transitions]_vars

\* C4: a teardown of stop() and a teardown of handleFatalError are never in
\* flight together; the stop() teardown never replaces the status error by
\* idle, and the fatal teardown never sets error while a stop() is in flight.
C4_NoOverlap ==
  /\ [](TeardownsOf("stop") = {} \/ TeardownsOf("fatal") = {})
  /\ [][ /\ TailOf("stop") => status # "error"
         /\ TailOf("fatal") => status # "stopping" ]_vars

\* C5: in status idle every entity of the session is destroyed.
C5_IdleDestroyed == status = "idle" => Released /\ playbackNodes = {}

\* A message of the server is delivered.
Delivered == \E s \in StartIds, m \in LifecycleMessages : WsMessage(s, m[1], m[2])

\* C7: a message delivered while the status is neither connecting nor ready
\* changes neither the status, the avatar's state, the metrics, the error,
\* the playback cursor nor the streaming flag.
C7_Discarded ==
  [][ status \notin {"connecting", "ready"} /\ Delivered =>
        UNCHANGED <<status, avatarState, metrics, error, playbackCursor, streamingEnabled>> ]_vars

\* The negotiation of connection p has applied the remote description and
\* has added the candidates it found pending.
Negotiated(p) ==
  /\ pcs[p].state = "open" /\ pcs[p].remote
  /\ \/ pcs[p].shape = "server" /\ pcs[p].step \in {"createAnswer", "setLocal", "done"}
     \/ pcs[p].shape = "client" /\ pcs[p].answer = "done"

IsPrefix(a, b) == Len(a) <= Len(b) /\ \A i \in 1..Len(a) : a[i] = b[i]

\* C6: the candidates that arrived while no peer connection existed are
\* added to the connection the next negotiation creates, once each, in the
\* order of their arrival and before every candidate that arrived later.
C6_QueuedApplied == \A p \in PcIds : Negotiated(p) => IsPrefix(pcs[p].owed, pcs[p].applied)

C9_NoFrameWhileDisabled ==
  [][ ~streamingEnabled =>
        /\ \A s \in StartIds : wire'[s].audio = wire[s].audio
        /\ metrics'.sentAudioBytes <= metrics.sentAudioBytes ]_vars

\* A step of start() that runs resetMetrics.
Resets ==
  \/ Start
  \/ microQ # <<>> /\ Head(microQ).pc = "start" /\ Microtask

\* C10: the byte counts of the metrics are the sums of the lengths of the
\* audio frames sent and of the binary frames received since resetMetrics,
\* and they decrease only where start() runs resetMetrics.
C10_Metrics ==
  /\ [](metrics.sentAudioBytes = frames.sent /\ metrics.receivedAudioBytes = frames.received)
  /\ [][ \/ /\ metrics'.sentAudioBytes >= metrics.sentAudioBytes
            /\ metrics'.receivedAudioBytes >= metrics.receivedAudioBytes
         \/ Resets ]_vars

\* The server's session.error arrives, with a message or without one.
ServerError == \E s \in StartIds, text \in {"", "server"} : WsMessage(s, "session.error", text)

\* C11: a session.error that arrives while the status is connecting or ready
\* starts the teardown stop() runs (the closing flag is set, the socket is
\* closed and its ref cleared, cleanupAudioGraph is called) with the error
\* field set to the message's text, or to the default text when it has none;
\* and when that teardown has finished the status is error and the error
\* field still holds that text.
C11_ServerError ==
  [][ /\ (status \in {"connecting", "ready"} /\ ServerError) =>
            /\ error' = fatalText' /\ fatalText' \in {"server", DefaultError}
            /\ closing' /\ wsRef' = 0 /\ ~streamingEnabled'
            /\ \A s \in StartIds : (rs[s] = "open" /\ wsRef = s) => rs'[s] = "closing"
      /\ (fatalText \in {"server", DefaultError} /\ TailOf("fatal")) =>
            status' = "error" /\ error' = fatalText /\ ~closing' ]_vars

\* A step of a start() call: the call, or one of its continuations.
StartStep ==
  \/ Start
  \/ microQ # <<>> /\ Head(microQ).kind \in {"start", "catch"} /\ Microtask
  \/ \E s \in StartIds, ok \in BOOLEAN : ResumeSettled(s, ok) \/ AddModuleSettled(s, ok)
  \/ \E s \in StartIds, ok \in BOOLEAN, nodeThrows \in BOOLEAN : GetUserMediaSettled(s, ok, nodeThrows)

\* C12: once the status is error it stays error, and the error field stays
\* set, through every step that is not a step of start(): a call of stop(), a
\* close or error event of a socket, a message, a continuation of a teardown.
C12_ErrorSticks ==
  [][ status = "error" /\ ~StartStep => status' = "error" /\ error' # "null" ]_vars

\* A fault of the transport: the error event of a socket, the close event of
\* a socket, or a text frame that is not JSON.
TransportFault ==
  \/ \E s \in StartIds : WsError(s)
  \/ \E s \in StartIds : WsClose(s)
  \/ \E s \in StartIds : WsMessage(s, "malformed", "")

\* A teardown of handleFatalError is in flight.
FatalInFlight == TeardownsOf("fatal") # {}

\* C13: a fault of the transport in a session that is connecting or ready
\* and is not being torn down is fatal: the handler sets the error field and
\* starts the fatal teardown, which ends in status error.
C13_TransportFaults ==
  [][ (status \in {"connecting", "ready"} /\ ~closing /\ TransportFault) =>
         error' # "null" /\ (status' = "error" \/ FatalInFlight') ]_vars

\* The close event of a socket.
CloseEvent == \E s \in StartIds : WsClose(s)

\* C14: a close event that arrives while closingRef is set changes neither
\* the status nor the error field and starts no teardown: no continuation is
\* queued and no audio context is closed by it.
C14_ExpectedClose ==
  [][ closing /\ CloseEvent => UNCHANGED <<status, error, microQ, closeWait, ctxState, micState>> ]_vars

\* The close event of the socket stop() closed has arrived during stop()'s
\* teardown.
C14_Witness ==
  lastOp = "close.expected" /\ status = "stopping" /\ closing /\ TeardownsOf("stop") # {}

\* A teardown that ws.onclose started is in flight.
CloseInFlight == TeardownsOf("close") # {}

\* C15: a close event that arrives while the status is ready and closingRef
\* is not set appends a warn entry to the log, starts cleanupAudioGraph,
\* clears the socket's ref and sets the status to idle; the error field is
\* not written.
C15_UnexpectedClose ==
  [][ (status = "ready" /\ ~closing /\ CloseEvent) =>
         /\ logged' = <<"warn">> /\ CloseInFlight'
         /\ wsRef' = 0 /\ ~streamingEnabled'
         /\ status' = "idle" /\ error' = error ]_vars

\* The server has closed the connection of a session that was ready.
C15_Witness ==
  lastOp = "close.unexpected" /\ status = "idle" /\ logged = <<"warn">> /\ CloseInFlight

\* start() continues after its await of stop() (line 1046).
StartAfterStop == microQ # <<>> /\ Head(microQ).pc = "start" /\ Microtask

\* C16: when a start() that found the status connecting or ready continues
\* after its await of stop(), the earlier session is stopped: its socket is
\* closed, its resources are released and no teardown is in flight; the step
\* then sets the metrics to zero, the error field to null and the status to
\* connecting.
C16_RestartStopsFirst ==
  [][ StartAfterStop =>
        /\ Released /\ ~closing /\ closeWait = EmptyBag
        /\ metrics' = ZeroMetrics /\ error' = "null" /\ status' = "connecting" ]_vars

\* The catch block of start() call s has finished (lines 1230-1233).
CatchDone(s) ==
  /\ microQ # <<>> /\ Head(microQ).pc = "cont" /\ Head(microQ).kind = "catch"
  /\ Head(microQ).owner = s /\ Microtask

\* C17: when the catch block of a start() call has finished, that call has
\* opened no socket, the audio context and the microphone it acquired are
\* released, the status is error and the error field holds the failure's
\* message.
C17_AcquisitionFailure ==
  [][ \A s \in StartIds : CatchDone(s) =>
        /\ rs'[s] = "none"
        /\ ctxState'[s] \in {"none", "closed"} /\ micState'[s] # "live"
        /\ status' = "error" /\ error' = "init" ]_vars

\* A remote candidate arrives and its addIceCandidate is rejected.
CandidateRejected ==
  /\ avatarPeerConnectionRef # 0
  /\ addIceCandidate(St, avatarPeerConnectionRef, nCand + 1) = St
  /\ \E s \in StartIds : WsMessage(s, "session.event", "avatar.ice_candidate")

\* A step of the avatar's negotiation fails: an await of a negotiation
\* handler is rejected, the remote answer is rejected, a remote candidate is
\* rejected, or the connection's state becomes failed.
NegotiationFailure ==
  \/ \E p \in PcIds : NegotiationStep(p, FALSE)
  \/ \E p \in PcIds : AnswerSettled(p, FALSE)
  \/ CandidateRejected
  \/ \E p \in PcIds : ConnectionFailed(p)

\* What a failure of the avatar must leave alone: the session's status and
\* error field, the sockets, and the capture and playback graphs.
parent ==
  <<status, error, closing, streamingEnabled, wsRef, rs, audioContextRef, ctxState,
    mediaStreamRef, micState, workletNodeRef, playbackNodes, playbackCursor, metrics>>

\* C18: a failure of a step of the avatar's negotiation sets the avatar's
\* state to idle and is logged at warn or error, and changes nothing of the
\* parent session.
C18_AvatarFailureIsolated ==
  [][ NegotiationFailure => avatarState' = "idle" /\ logged' # <<>> /\ UNCHANGED parent ]_vars

\* No negotiation handler of the avatar is suspended.
HandlersFinished ==
  /\ \A p \in PcIds : pcs[p].step \in {"none", "done"} /\ pcs[p].answer # "setRemote"
  /\ \A i \in 1..Len(microQ) : microQ[i].kind # "avatar"

Unrecognised ==
  \E s \in StartIds :
     \/ WsMessage(s, "session.unknown", "")
     \/ WsMessage(s, "session.event", "unknown.event")
     \/ WsMessage(s, "session.event", "")

\* C20: a message of an unknown type and a session.event of an unknown name
\* append one warn entry to the log and change neither the status, the
\* avatar's state, the metrics nor the error field.
C20_UnknownLogged ==
  [][ Unrecognised => logged' = <<"warn">> /\ UNCHANGED <<status, avatarState, metrics, error>> ]_vars

\* A binary frame of len bytes arrives while audioContextRef holds a context.
Scheduled(len) == audioContextRef # 0 /\ \E s \in StartIds : WsMessage(s, "binary", len)

\* The barge-in flush: a session.event input.speech_started arrives.
Flush == \E s \in StartIds : WsMessage(s, "session.event", "input.speech_started")

\* cleanupAudioGraph clears the playback nodes and the cursor (lines 331-332).
TeardownBody == microQ # <<>> /\ Head(microQ).pc = "L302" /\ Microtask

\* C21: a buffer is scheduled at the later of the current time and the
\* cursor, which is at or after the end of every buffer scheduled before it
\* and not flushed; the cursor then is the buffer's start plus its duration;
\* and the cursor moves backwards only in a flush or a teardown.
C21_Gapless ==
  [][ /\ \A len \in RecvFrameLens : Scheduled(len) =>
           \E n \in playbackNodes' \ playbackNodes :
              /\ n.dur = len \div PCM_FRAME_SIZE /\ ~n.stopped
              /\ n.start >= now /\ n.start >= playbackCursor
              /\ n.start \in {now, playbackCursor}
              /\ playbackCursor' = n.start + n.dur
              /\ \A m \in playbackNodes : ~m.stopped => n.start >= m.start + m.dur
      /\ playbackCursor' < playbackCursor => Flush \/ TeardownBody ]_vars

\* Two buffers are scheduled one after the other, the second at the end of
\* the first.
C21_Witness ==
  \E a, b \in playbackNodes :
     ~a.stopped /\ ~b.stopped /\ b.start = a.start + a.dur /\ playbackCursor = b.start + b.dur

\* C22: the barge-in flush stops every node of playbackNodesRef, which holds
\* every node that is scheduled or playing, and sets the cursor to the current
\* time of the audio context; the first buffer scheduled after a flush starts
\* at the current time.
C22_BargeIn ==
  [][ /\ Flush =>
           /\ \A n \in playbackNodes' : n.stopped
           /\ {[start |-> n.start, dur |-> n.dur] : n \in playbackNodes'}
                = {[start |-> n.start, dur |-> n.dur] : n \in playbackNodes}
           /\ audioContextRef # 0 => playbackCursor' = now
      /\ \A len \in RecvFrameLens :
           (Scheduled(len) /\ playbackNodes # {} /\ \A m \in playbackNodes : m.stopped) =>
              \E n \in playbackNodes' \ playbackNodes : n.start = now ]_vars

\* A flush has stopped a buffer before its end, after the clock had advanced.
C22_Witness ==
  /\ now > 0 /\ playbackCursor = now /\ audioContextRef # 0
  /\ \E n \in playbackNodes : n.stopped /\ n.start + n.dur > now

\* A remote candidate arrives.
CandidateArrives == \E s \in StartIds : WsMessage(s, "session.event", "avatar.ice_candidate")

\* The elements of a sequence, and whether it is in ascending order.
Range(seq) == {seq[i] : i \in 1..Len(seq)}
Ascending(seq) == \A i, j \in 1..Len(seq) : i < j => seq[i] < seq[j]

\* C23: an open connection has candidates applied only once its remote description
\* is set, and in the order of their arrival; and a candidate that arrives is
\* either applied to the current connection, chained behind the
\* setRemoteDescription in progress, or held in the pending queue: it is not
\* dropped.
C23_CandidatesAfterRemote ==
  /\ [](\A p \in PcIds : /\ pcs[p].state = "open" /\ pcs[p].applied # <<>> => pcs[p].remote
                         /\ Ascending(pcs[p].applied))
  /\ [][ CandidateArrives =>
           LET c == nCand + 1
               p == avatarPeerConnectionRef'
           IN \/ c \in Range(avatarCandidateQueue')
              \/ p # 0 /\ c \in Range(pcs'[p].applied) \cup Range(pcs'[p].chained) ]_vars

\* C24: no signalling message of the avatar (offer, answer, local candidate)
\* is given to a socket that is closing or closed: the peer connection and
\* its handlers are gone before the socket is closed.
C24_NoSignallingOnClosedSocket == \A s \in StartIds : ~wire[s].late

\* The positions of an operation in the order of a teardown.
At(seq, op) == {i \in 1..Len(seq) : seq[i] = op}

\* C25: a teardown first disables the production of frames (it clears the
\* streaming flag and tells the worklet), then releases the microphone, then
\* releases the capture nodes.
C25_TeardownOrder ==
  [][ TeardownBody =>
        /\ released' # <<>> /\ released'[1] = "disable" /\ ~streamingEnabled'
        /\ \A t \in At(released', "tell"), o \in At(released', "microphone") \cup At(released', "node") : t < o
        /\ \A o \in At(released', "microphone"), n \in At(released', "node") : o < n ]_vars

\* The peer connections that are open.
OpenPcs == {p \in PcIds : pcs[p].state = "open"}

\* C26: at most one peer connection is open, and it is the one the ref
\* holds; when a negotiation creates a connection, every earlier one is
\* closed and the refs of the connection and of the remote stream are null.
C26_OneConnection ==
  /\ [](Cardinality(OpenPcs) <= 1 /\ OpenPcs \subseteq {avatarPeerConnectionRef})
  /\ [][ nPc' > nPc =>
           OpenPcs = {} /\ avatarPeerConnectionRef = 0 /\ avatarRemoteStreamRef = 0 ]_vars

\* A second negotiation has replaced the connection of the first.
C26_Witness == nPc = 2 /\ pcs[1].state = "closed" /\ pcs[2].state = "open"

\* An event of socket s: its close, its error, or a message on it.
SocketEvent(s) ==
  \/ WsClose(s)
  \/ WsError(s)
  \/ \E m \in LifecycleMessages : WsMessage(s, m[1], m[2])

\* What belongs to the current session: its status and error field, the refs
\* of its socket and of its capture graph, its audio contexts and
\* microphones, and the teardowns in flight.
session ==
  <<status, error, closing, wsRef, audioContextRef, mediaStreamRef, workletNodeRef,
    ctxState, micState, microQ, closeWait>>

\* C27: an event of a socket that an earlier start() created, delivered when
\* wsRef holds the socket of a later start(), changes nothing of the current
\* session; and a close event delivered after stop() has finished starts no
\* teardown.
C27_StaleSocketEvents ==
  [][ /\ \A s \in StartIds : (wsRef > s /\ SocketEvent(s)) => UNCHANGED session
      /\ \A s \in StartIds : (status = "idle" /\ ~closing /\ WsClose(s)) =>
             UNCHANGED <<microQ, closeWait>> ]_vars


\* A teardown of stop is in flight.
StopInFlight == TeardownsOf("stop") # {}

\* The reset of start (lines 1046-1061) runs in this step: at once in a
\* start() that finds the session neither connecting nor ready, and otherwise
\* when the stop() it awaited has returned.
StartBodyRuns ==
  \/ status \notin {"connecting", "ready"} /\ Start
  \/ microQ # <<>> /\ Head(microQ).pc = "start" /\ Microtask

\* cleanupAudioGraph continues after its await of audioContext.close() while
\* audioContextRef holds a context that this cleanupAudioGraph has not closed.
\* A start() put it there after the teardown began: for the teardowns of stop
\* and handleFatalError, closingRef has been cleared since.
TeardownCompletes(r) ==
  /\ AudioContextClosed(r)
  /\ audioContextRef \notin {0, r.ctx}
  /\ r.kind = "close" \/ ~closing

\* C28: a start() that is called while a teardown is in flight leaves
\* closingRef set as long as the teardown of stop or of handleFatalError runs,
\* and the completion of the earlier teardown leaves the new session alone:
\* it does not clear the reference to the audio context of the new start(), and
\* it writes neither idle nor error over the status connecting or ready of the
\* new session.
C28_StartDuringTeardown ==
  [][ /\ (closing /\ (StopInFlight \/ FatalInFlight) /\ StartBodyRuns) => closing'
      /\ \A r \in BagToSet(closeWait) : TeardownCompletes(r) => UNCHANGED audioContextRef
      /\ (status \in {"connecting", "ready"} /\ TailOf("stop")) => UNCHANGED status
      /\ (status \in {"connecting", "ready"} /\ ~closing /\ TailOf("fatal")) =>
            UNCHANGED status ]_vars


\* The negotiation handler of connection p resumes after a newer negotiation
\* has created its connection.
SupersededResumes(p) == nPc > p /\ \E ok \in BOOLEAN : NegotiationStep(p, ok)

\* The signalling messages of the avatar the hook has given to its sockets.
signalled == [s \in StartIds |-> <<wire[s].avatar, wire[s].late>>]

\* C29: a negotiation handler that resumes after a second trigger has
\* replaced its connection leaves the state of the avatar, the refs of the
\* connection and of the remote stream and the newer connection as they are,
\* and sends no offer and no answer.
C29_SupersededNegotiation ==
  [][ \A p \in PcIds : SupersededResumes(p) =>
        /\ UNCHANGED <<avatarState, avatarPeerConnectionRef, avatarRemoteStreamRef, signalled>>
        /\ \A q \in PcIds : q # p => pcs'[q] = pcs[q] ]_vars


\* C30: whenever the state of the avatar is idle and no negotiation handler
\* is suspended, the hook retains no peer connection: the ref is null and no
\* connection is open.
C30_IdleRetainsNoConnection ==
  avatarState = "idle" /\ HandlersFinished =>
    avatarPeerConnectionRef = 0 /\ OpenPcs = {}

====
